---- MODULE Spec2Model ----
(***************************************************************************)
(* DCGMail: the fetch -> categorize -> notify pipeline                     *)
(* (EmailProcessor.process, driven by main), the two rule-based            *)
(* categorizers (SimpleCategorizer, RegexCategorizer), the organizer       *)
(* (EmailAnalyzer.analyze_actions) and the mailbox operations of the       *)
(* three Gmail providers.                                                  *)
(*                                                                         *)
(* Strings are sequences of tokens: a token stands for one indivisible     *)
(* piece of text ("@", "coinbase.com", "<", a word).  Slicing, suffix and  *)
(* substring tests work on these sequences the way the Python string       *)
(* operations work on characters.                                          *)
(***************************************************************************)
EXTENDS Integers, Sequences, FiniteSets, TLC

VARIABLES
    dry_run,      \* EmailProcessor.dry_run
    notifier,     \* EmailProcessor.notifier
    limit,        \* the limit argument of process()
    mailbox,      \* the provider's remote mailbox
    pc,           \* position inside main / process()
    emails,       \* local `emails` of process()
    categorized,  \* local `categorized_emails` of process()
    collection,   \* local `collection` of process()
    result,       \* value returned by process(): "none" until it returns
    caught,       \* exception kind absorbed by an except clause of process()
    failed_at,    \* the collaborator call whose failure ended process()
    raised,       \* exception kind leaving process() towards its caller
    calls,        \* collaborator operations invoked, in order
    summaries,    \* send_summary invocations in order: receiver, collection
    alerts,       \* send_alert invocations in order: receiver
    exit_code,    \* value returned by main()
    organize,     \* analyze_actions(organize=...)
    simulate,     \* analyze_actions(simulate=...)
    org_pc,       \* position inside analyze_actions
    org_idx,      \* index of the email the organizer loop is at
    actions_taken, \* local `actions_taken` of analyze_actions
    trash_count,  \* local `trash_count` of analyze_actions
    report,       \* what analyze_actions returns
    categories,   \* the loaded categories.json
    cz_impl,      \* which EmailCategorizer class is constructed
    cz_source,    \* the categories.json the constructor is pointed at
    cz_pc,        \* "new", then "ready" or "failed" once the constructor ran
    cz_error,     \* the exception that left the constructor
    cz_matches,   \* local `matches` of each single categorization
    cz_single,    \* what categorize(emails[i]) returned, call after call
    cz_names,     \* what get_categories() returned
    prov_impl,    \* which EmailProvider class is in use
    prov_service, \* whether self.service is set (authenticate() succeeded)
    prov_op,      \* the last provider operation invoked: name, message id
    prov_api,     \* the remote API requests the last operation issued
    prov_result,  \* how the last operation ended: a return value or a raise
    prov_msg,     \* the message of the exception the last operation raised
    prov_count    \* number of mailbox operations invoked so far

vars == <<dry_run, notifier, limit, mailbox, pc, emails, categorized,
          collection, result, caught, failed_at, raised, calls, summaries,
          alerts, exit_code, organize, simulate, org_pc, org_idx, actions_taken,
          trash_count, report, categories, cz_impl, cz_source, cz_pc,
          cz_error, cz_matches, cz_single, cz_names, prov_impl, prov_service,
          prov_op, prov_api, prov_result, prov_msg, prov_count>>

pipelineVars == <<dry_run, notifier, limit, pc, emails, categorized,
                  collection, result, caught, failed_at, raised, summaries,
                  alerts, exit_code>>

organizerVars == <<organize, simulate, org_pc, org_idx, actions_taken,
                   trash_count, report>>

categorizerVars == <<cz_impl, cz_source, cz_pc, cz_error, cz_matches,
                     cz_single, cz_names>>

providerVars == <<prov_impl, prov_service, prov_op, prov_api, prov_result,
                  prov_msg, prov_count>>

----------------------------------------------------------------------------
(* Bounds *)

MaxEmails == 2

MaxLimit == 2

MaxOps == 2

----------------------------------------------------------------------------
(* Strings *)

Lower(t) ==
    CASE t = "Shop"     -> "shop"
      [] t = "Coinbase" -> "coinbase"
      [] t = "SALE"     -> "sale"
      [] OTHER          -> t

RECURSIVE LowerStr(_)
LowerStr(s) ==
    IF s = <<>> THEN <<>> ELSE <<Lower(Head(s))>> \o LowerStr(Tail(s))

EndsWith(s, suffix) ==
    /\ Len(suffix) <= Len(s)
    /\ SubSeq(s, Len(s) - Len(suffix) + 1, Len(s)) = suffix

Contains(s, sub) ==
    \E i \in 1..(Len(s) - Len(sub) + 1) : SubSeq(s, i, i + Len(sub) - 1) = sub

Min(a, b) == IF a < b THEN a ELSE b

----------------------------------------------------------------------------
(* Data *)

Email(id, sender, subject, snippet) ==
    [id |-> id, sender |-> sender, subject |-> subject, snippet |-> snippet]

EmailPool ==
    { Email("m1", <<"alerts", "@", "coinbase.com">>,
                  <<"staking", "rewards">>, <<"wallet">>),
      Email("m2", <<"Shop", "<", "deals", "@", "shop-spam.com", ">">>,
                  <<"SALE", "discount">>, <<"unsubscribe">>),
      Email("m3", <<"random", "@", "example.org">>,
                  <<"hello">>, <<"catch", "up">>) }

NoPriority == -1

Rule(name, patterns, senders, priority, action, root_label, archive) ==
    [name |-> name, patterns |-> patterns, senders |-> senders,
     priority |-> priority, action |-> action, root_label |-> root_label,
     archive |-> archive]

\* A categories.json: the category entries in file order.  A pattern is one
\* token (a regular expression that matches that word); a sender entry is a
\* token sequence.
DefaultCategories ==
    << Rule("Noise", <<"sale">>, <<>>, 3, "trash", <<>>, FALSE),
       Rule("Crypto", <<>>, << <<"@", "coinbase.com">> >>, 1, "none",
            <<"Finance">>, TRUE),
       Rule("Promo", <<"discount">>, <<>>, NoPriority, "none",
            <<"Shops">>, FALSE) >>

\* The same file with a pattern that is not a valid regular expression.
BadRegexCategories ==
    << Rule("Noise", <<"(", "sale">>, <<>>, 3, "trash", <<>>, FALSE),
       Rule("Crypto", <<>>, << <<"@", "coinbase.com">> >>, 1, "none",
            <<"Finance">>, TRUE) >>

ConfigPool == {DefaultCategories, BadRegexCategories}

----------------------------------------------------------------------------
(* SimpleCategorizer.  Confidence is in tenths: 10 is 1.0, 0 is 0.0. *)

InvalidRegex(p) == p = "("

RECURSIVE _matches_patterns(_, _)
_matches_patterns(text, patterns) ==
    IF patterns = <<>> THEN FALSE
    ELSE IF InvalidRegex(Head(patterns))
         THEN _matches_patterns(text, Tail(patterns))
         ELSE IF Contains(LowerStr(text), <<Lower(Head(patterns))>>)
              THEN TRUE
              ELSE _matches_patterns(text, Tail(patterns))

\* Mutant: the address is not taken out of "Name <address>"
SenderEmail_NoExtraction(sender) == LowerStr(sender)

SenderEmail(sender) ==
    LET pairs == {p \in (1..Len(sender)) \X (1..Len(sender)) :
                    /\ sender[p[1]] = "<"
                    /\ sender[p[2]] = ">"
                    /\ p[2] > p[1] + 1}
    IN  IF pairs = {} THEN LowerStr(sender)
        ELSE LET i == CHOOSE a \in {p[1] : p \in pairs} :
                          \A b \in {p[1] : p \in pairs} : a <= b
                 j == CHOOSE a \in {p[2] : p \in {q \in pairs : q[1] = i}} :
                          \A b \in {p[2] : p \in {q \in pairs : q[1] = i}} :
                              a <= b
             IN  LowerStr(SubSeq(sender, i + 1, j - 1))

RECURSIVE _matches_sender(_, _)
_matches_sender(sender, allowed_senders) ==
    IF allowed_senders = <<>> THEN FALSE
    ELSE LET allowed == Head(allowed_senders)
         IN  IF Head(allowed) = "@"
             THEN IF EndsWith(SenderEmail(sender), LowerStr(allowed))
                  THEN TRUE
                  ELSE _matches_sender(sender, Tail(allowed_senders))
             ELSE IF SenderEmail(sender) = LowerStr(allowed)
                  THEN TRUE
                  ELSE _matches_sender(sender, Tail(allowed_senders))

_matches_rules(email, rules) ==
    IF rules.senders # <<>> /\ ~_matches_sender(email.sender, rules.senders)
    THEN FALSE
    ELSE IF /\ rules.patterns # <<>>
            /\ ~_matches_patterns(LowerStr(email.subject \o email.snippet),
                                  rules.patterns)
         THEN FALSE
         ELSE TRUE

Priority(rules) == IF rules.priority = NoPriority THEN 999 ELSE rules.priority

RECURSIVE Matches(_, _)
Matches(email, cats) ==
    IF cats = <<>> THEN <<>>
    ELSE (IF _matches_rules(email, Head(cats))
          THEN << <<Head(cats).name, Priority(Head(cats))>> >>
          ELSE <<>>) \o Matches(email, Tail(cats))

\* list.sort(key=priority) is stable: the first entry of the sorted list is
\* the earliest entry whose priority is minimal.
FirstMinPriority(matches) ==
    CHOOSE i \in 1..Len(matches) :
        /\ \A j \in 1..Len(matches) : matches[i][2] <= matches[j][2]
        /\ \A j \in 1..(i - 1) : matches[j][2] > matches[i][2]

categorize(email, cats) ==
    LET matches == Matches(email, cats)
    IN  IF matches = <<>> THEN "Uncategorized"
        ELSE matches[FirstMinPriority(matches)][1]

CategorizedEmail(email, cats) ==
    LET category == categorize(email, cats)
        confidence == IF category # "Uncategorized" THEN 10 ELSE 0
    IN  [email |-> email, category |-> category, confidence |-> confidence,
         reason |-> IF confidence > 0 THEN <<"Matched rules for", category>>
                    ELSE <<"No matching rules">>]

\* Mutant: emails that match no rule are left out of the result
RECURSIVE categorize_batch_DropsUncategorized(_, _)
categorize_batch_DropsUncategorized(es, cats) ==
    IF es = <<>> THEN <<>>
    ELSE (IF categorize(Head(es), cats) = "Uncategorized" THEN <<>>
          ELSE <<CategorizedEmail(Head(es), cats)>>)
             \o categorize_batch_DropsUncategorized(Tail(es), cats)

RECURSIVE categorize_batch(_, _)
categorize_batch(es, cats) ==
    IF es = <<>> THEN <<>>
    ELSE <<CategorizedEmail(Head(es), cats)>>
             \o categorize_batch(Tail(es), cats)

----------------------------------------------------------------------------
(* RegexCategorizer.  A sender entry is a regular expression too: the token *)
(* sequence it is written as matches wherever it occurs in the sender.      *)

_DEFAULT_CATEGORY == "Uncategorized"

\* Two more configuration files: one whose categories both fire on one
\* message, and one with a category that has no match criteria at all.
AlphaBetaCategories ==
    << Rule("Beta", <<"beta">>, <<>>, 2, "none", <<>>, FALSE),
       Rule("Alpha", <<"alpha">>, << <<"@", "alpha.com">> >>, 1, "none",
            <<>>, FALSE) >>

WorkAdminCategories ==
    << Rule("Work", <<>>, <<>>, 5, "none", <<>>, FALSE),
       Rule("Admin", <<>>, << <<"@", "coinbase.com">> >>, NoPriority, "none",
            <<>>, FALSE) >>

\* Two categories of equal priority: the first fires on a content pattern,
\* the second on the sender
TieCategories ==
    << Rule("Promo", <<"staking">>, <<>>, 4, "none", <<>>, FALSE),
       Rule("Crypto", <<>>, << <<"@", "coinbase.com">> >>, 4, "none",
            <<>>, FALSE) >>

\* A category without priority between one above and one below 50
OmittedPriorityCategories ==
    << Rule("Work", <<"up">>, <<>>, 60, "none", <<>>, FALSE),
       Rule("Promo", <<"hello", "wallet">>, <<>>, NoPriority, "none",
            <<>>, FALSE),
       Rule("Crypto", <<"staking">>, <<>>, 10, "none", <<>>, FALSE) >>

CategorizerConfigPool ==
    ConfigPool \cup {AlphaBetaCategories, WorkAdminCategories, TieCategories,
                     OmittedPriorityCategories}

CategorizerEmailPool ==
    EmailPool \cup
    { Email("m4", <<"Coinbase", "<", "alerts", "@", "coinbase.com", ">">>,
                  <<"alpha", "beta">>, <<"news">>),
      Email("m5", <<"user", "@", "alpha.com">>,
                  <<"beta", "alpha">>, <<"news">>),
      Email("m6", <<"alerts", "@", "coinbase.com", ".evil.org">>,
                  <<"invoice">>, <<"pay">>) }

\* What config_path names: no file, a file that is not JSON, a JSON file
\* whose top level is a list, a JSON file (raw) whose first category entry
\* is a string instead of an object, or a well-formed JSON file (raw)
ConfigSources ==
    {[kind |-> "missing", raw |-> <<>>], [kind |-> "invalid_json", raw |-> <<>>],
     [kind |-> "json_list", raw |-> <<>>],
     [kind |-> "json_bad_entry", raw |-> DefaultCategories]}
        \cup {[kind |-> "json", raw |-> c] : c \in CategorizerConfigPool}

\* The loaded JSON is not a mapping of category names to objects
StructureFails(source) == source.kind \in {"json_list", "json_bad_entry"}

NoError == [class |-> "none", msg |-> "none"]

\* re.compile(s) of a sender entry fails when one of its tokens does
InvalidSenderRegex(entry) == \E i \in 1..Len(entry) : InvalidRegex(entry[i])

\* re.compile raises on some pattern or sender entry of the file
CompileFails(raw) ==
    \E i \in 1..Len(raw) :
        \/ \E k \in 1..Len(raw[i].patterns) : InvalidRegex(raw[i].patterns[k])
        \/ \E k \in 1..Len(raw[i].senders) :
               InvalidSenderRegex(raw[i].senders[k])

\* self._rules: one entry per category, priority defaulting to 50
RECURSIVE CompiledRules(_)
CompiledRules(raw) ==
    IF raw = <<>> THEN <<>>
    ELSE << [name |-> Head(raw).name,
             patterns |-> Head(raw).patterns,
             senders |-> Head(raw).senders,
             priority |-> IF Head(raw).priority = NoPriority THEN 50
                          ELSE Head(raw).priority] >>
             \o CompiledRules(Tail(raw))

\* Mutant: a missing file is read as an empty rule set
_load_rules_MissingIsEmpty(source) ==
    IF source.kind = "missing"
    THEN [error |-> NoError, rules |-> <<>>]
    ELSE IF source.kind = "invalid_json"
         THEN [error |-> [class |-> "CategorizerError",
                          msg |-> "Invalid JSON in"],
               rules |-> <<>>]
         ELSE IF StructureFails(source)
              THEN [error |-> [class |-> "AttributeError", msg |-> "none"],
                    rules |-> <<>>]
              ELSE IF CompileFails(source.raw)
                   THEN [error |-> [class |-> "re.error", msg |-> "none"],
                         rules |-> <<>>]
                   ELSE [error |-> NoError,
                         rules |-> CompiledRules(source.raw)]

_load_rules(source) ==
    IF source.kind = "missing"
    THEN [error |-> [class |-> "CategorizerError",
                     msg |-> "Categories config not found"],
          rules |-> <<>>]
    ELSE IF source.kind = "invalid_json"
         THEN [error |-> [class |-> "CategorizerError",
                          msg |-> "Invalid JSON in"],
               rules |-> <<>>]
         ELSE IF StructureFails(source)
              THEN [error |-> [class |-> "AttributeError", msg |-> "none"],
                    rules |-> <<>>]
              ELSE IF CompileFails(source.raw)
                   THEN [error |-> [class |-> "re.error", msg |-> "none"],
                         rules |-> <<>>]
                   ELSE [error |-> NoError,
                         rules |-> CompiledRules(source.raw)]

\* SimpleCategorizer.__init__: the file is kept as loaded
SimpleCategorizer_init(source) ==
    IF source.kind = "missing"
    THEN [error |-> [class |-> "ConfigError",
                     msg |-> "Categories config not found"],
          rules |-> <<>>]
    ELSE IF source.kind = "invalid_json"
         THEN [error |-> [class |-> "ConfigError", msg |-> "Invalid JSON in"],
               rules |-> <<>>]
         ELSE [error |-> NoError, rules |-> source.raw]

Candidate(category, confidence, reason, priority) ==
    [category |-> category, confidence |-> confidence, reason |-> reason,
     priority |-> priority]

\* for pattern in rule["senders"]: if pattern.search(email.sender)
RECURSIVE SenderCandidates(_, _, _)
SenderCandidates(rule, senders, email) ==
    IF senders = <<>> THEN <<>>
    ELSE (IF Contains(email.sender, Head(senders))
          THEN <<Candidate(rule.name, 10,
                           <<"Sender matched:", Head(senders)>>,
                           rule.priority)>>
          ELSE <<>>) \o SenderCandidates(rule, Tail(senders), email)

\* for pattern in rule["patterns"]: if pattern.search(text)
RECURSIVE PatternCandidates(_, _, _)
PatternCandidates(rule, patterns, email) ==
    IF patterns = <<>> THEN <<>>
    ELSE (IF Contains(email.subject \o email.snippet, <<Head(patterns)>>)
          THEN <<Candidate(rule.name, 8,
                           <<"Pattern matched:", Head(patterns)>>,
                           rule.priority)>>
          ELSE <<>>) \o PatternCandidates(rule, Tail(patterns), email)

\* The list `matches` of _match once its loop over self._rules is over
RECURSIVE RegexMatches(_, _)
RegexMatches(email, rules) ==
    IF rules = <<>> THEN <<>>
    ELSE SenderCandidates(Head(rules), Head(rules).senders, email)
             \o PatternCandidates(Head(rules), Head(rules).patterns, email)
             \o RegexMatches(email, Tail(rules))

\* key=lambda m: (m[3], -m[1]) : a sorts no later than b
KeyLE(a, b) ==
    \/ a.priority < b.priority
    \/ a.priority = b.priority /\ a.confidence >= b.confidence

\* Mutant: the sort is descending in priority
SortedFirst_Descending(matches) ==
    CHOOSE i \in 1..Len(matches) :
        /\ \A j \in 1..Len(matches) : KeyLE(matches[j], matches[i])
        /\ \A j \in 1..(i - 1) : ~KeyLE(matches[i], matches[j])

\* matches.sort(...) is stable: matches[0] afterwards is the earliest entry
\* whose key is minimal
SortedFirst(matches) ==
    CHOOSE i \in 1..Len(matches) :
        /\ \A j \in 1..Len(matches) : KeyLE(matches[i], matches[j])
        /\ \A j \in 1..(i - 1) : ~KeyLE(matches[j], matches[i])

\* Mutant: without the fallback, _match returns None when nothing matched
_match_NoFallback(email, rules) ==
    LET matches == RegexMatches(email, rules)
    IN  IF matches = <<>>
        THEN [category |-> "None", confidence |-> 0, reason |-> <<"None">>]
        ELSE LET best == matches[SortedFirst(matches)]
             IN  [category |-> best.category, confidence |-> best.confidence,
                  reason |-> best.reason]

_match(email, rules) ==
    LET matches == RegexMatches(email, rules)
    IN  IF matches = <<>>
        THEN [category |-> _DEFAULT_CATEGORY, confidence |-> 0,
              reason |-> <<"No rules matched">>]
        ELSE LET best == matches[SortedFirst(matches)]
             IN  [category |-> best.category, confidence |-> best.confidence,
                  reason |-> best.reason]

RegexCategorizer_categorize(email, rules) == _match(email, rules).category

\* Mutant: the results come back in reverse order
RECURSIVE RegexCategorizer_categorize_batch_Reversed(_, _)
RegexCategorizer_categorize_batch_Reversed(es, rules) ==
    IF es = <<>> THEN <<>>
    ELSE RegexCategorizer_categorize_batch_Reversed(Tail(es), rules)
             \o << [email |-> Head(es),
                    category |-> _match(Head(es), rules).category,
                    confidence |-> _match(Head(es), rules).confidence,
                    reason |-> _match(Head(es), rules).reason] >>

RECURSIVE RegexCategorizer_categorize_batch(_, _)
RegexCategorizer_categorize_batch(es, rules) ==
    IF es = <<>> THEN <<>>
    ELSE << [email |-> Head(es),
             category |-> _match(Head(es), rules).category,
             confidence |-> _match(Head(es), rules).confidence,
             reason |-> _match(Head(es), rules).reason] >>
             \o RegexCategorizer_categorize_batch(Tail(es), rules)

\* Python's order on the category names in use
NameRank(name) ==
    CASE name = "Admin"         -> 1
      [] name = "Alpha"         -> 2
      [] name = "Beta"          -> 3
      [] name = "Crypto"        -> 4
      [] name = "Noise"         -> 5
      [] name = "Promo"         -> 6
      [] name = "Uncategorized" -> 7
      [] name = "Work"          -> 8
      [] OTHER                  -> 9

RECURSIVE Insert(_, _)
Insert(name, names) ==
    IF names = <<>> THEN <<name>>
    ELSE IF NameRank(name) < NameRank(Head(names)) THEN <<name>> \o names
         ELSE <<Head(names)>> \o Insert(name, Tail(names))

RECURSIVE sorted(_)
sorted(names) ==
    IF names = <<>> THEN <<>> ELSE Insert(Head(names), sorted(Tail(names)))

\* The keys of the rules dict, in file order
Keys(rules) == [i \in 1..Len(rules) |-> rules[i].name]

RegexCategorizer_get_categories(rules) ==
    sorted(Keys(rules)) \o <<_DEFAULT_CATEGORY>>

SimpleCategorizer_get_categories(rules) == Keys(rules)

----------------------------------------------------------------------------
(* Collaborators of the pipeline *)

\* What the caller hands to EmailProcessor as `notifier`: None, one Notifier,
\* or (the parameter's type is not enforced, and the repository's pipeline
\* tests configure notifiers as a list) a list of two Notifiers.
NoNotifier == [kind |-> "none", items |-> <<>>]

OneNotifier == [kind |-> "object", items |-> <<"tg">>]

NotifierList == [kind |-> "list", items |-> <<"tg", "tg2">>]

NotifierArgs == {NoNotifier, OneNotifier, NotifierList}

\* Python truth value of self.notifier
Truthy(n) == n.kind = "object" \/ (n.kind = "list" /\ n.items # <<>>)

AuthOutcomes == {"True", "False", "CredentialError"}

FetchOutcomes == {"ok", "ProviderError"}

CategorizeOutcomes == {"ok", "CategorizerError"}

SendOutcomes == {"True", "False", "NotifierError"}

\* mark_as_read, add_label, move_to_trash: True, False (service-account
\* provider) or ProviderError (OAuth2 provider)
MutateOutcomes == {"True", "False", "ProviderError"}

MutatingOps == {"mark_as_read", "add_label", "move_to_trash", "archive_email"}

NoCollection == [built |-> FALSE, emails |-> <<>>, total_count |-> 0,
                 by_category |-> <<>>]

\* The by_category loop of process(): one increment per categorized email.
RECURSIVE CountByCategory(_, _)
CountByCategory(cat_emails, by_category) ==
    IF cat_emails = <<>> THEN by_category
    ELSE LET category == Head(cat_emails).category
             started == IF category \in DOMAIN by_category THEN by_category
                        ELSE by_category @@ (category :> 0)
         IN  CountByCategory(Tail(cat_emails),
                 [started EXCEPT ![category] = @ + 1])

EmailCollection(cat_emails, total_count, by_category) ==
    [built |-> TRUE, emails |-> cat_emails, total_count |-> total_count,
     by_category |-> by_category]

\* provider.fetch_unread(limit): the first `limit` unread messages
fetch_unread(box, n) == SubSeq(box.unread, 1, Min(n, Len(box.unread)))

\* Mutant: fetching marks the fetched messages as read
MailboxAfterFetch_MarksRead(box, n) ==
    [box EXCEPT !.read = @ \cup {box.unread[i].id :
                                  i \in 1..Min(n, Len(box.unread))}]

\* fetch_unread lists and gets messages; it modifies none of them
MailboxAfterFetch(box, n) == box

\* process() returns: every failure is absorbed into the value False
Return(value, exc, stage) ==
    /\ result' = value
    /\ caught' = exc
    /\ failed_at' = stage
    /\ raised' = "none"
    /\ pc' = "returned"

----------------------------------------------------------------------------
(* EmailProcessor.process *)

\* Mutant: the `return False` after a failed authenticate() is missing
Authenticate_ContinuesAfterFalse ==
    /\ pc = "idle"
    /\ calls' = Append(calls, "authenticate")
    /\ \E out \in AuthOutcomes :
          CASE out = "True"  -> /\ pc' = "fetching"
                                /\ UNCHANGED <<result, caught, failed_at, raised>>
            [] out = "False" -> /\ pc' = "fetching"
                                /\ failed_at' = "authenticate"
                                /\ UNCHANGED <<result, caught, raised>>
            [] OTHER         -> Return("False", out, "authenticate")
    /\ UNCHANGED <<dry_run, notifier, limit, mailbox, emails, categorized,
                   collection, summaries, alerts, exit_code, categories>>
    /\ UNCHANGED organizerVars
    /\ UNCHANGED <<categorizerVars, providerVars>>

\* Step 1: self.provider.authenticate()
Authenticate ==
    /\ pc = "idle"
    /\ calls' = Append(calls, "authenticate")
    /\ \E out \in AuthOutcomes :
          CASE out = "True"  -> /\ pc' = "fetching"
                                /\ UNCHANGED <<result, caught, failed_at, raised>>
            [] out = "False" -> Return("False", "none", "authenticate")
            [] OTHER         -> Return("False", out, "authenticate")
    /\ UNCHANGED <<dry_run, notifier, limit, mailbox, emails, categorized,
                   collection, summaries, alerts, exit_code, categories>>
    /\ UNCHANGED organizerVars
    /\ UNCHANGED <<categorizerVars, providerVars>>

\* Mutant: a failed fetch starts the run over instead of ending it
FetchUnread_Retries ==
    /\ pc = "fetching"
    /\ calls' = Append(calls, "fetch_unread")
    /\ \E out \in FetchOutcomes :
          IF out = "ok"
          THEN /\ emails' = fetch_unread(mailbox, limit)
               /\ pc' = IF emails' = <<>> THEN "empty" ELSE "categorizing"
          ELSE /\ pc' = "idle"
               /\ UNCHANGED emails
    /\ UNCHANGED <<result, caught, failed_at, raised>>
    /\ mailbox' = MailboxAfterFetch(mailbox, limit)
    /\ UNCHANGED <<dry_run, notifier, limit, categorized,
                   collection, summaries, alerts, exit_code, categories>>
    /\ UNCHANGED organizerVars
    /\ UNCHANGED <<categorizerVars, providerVars>>

\* Step 2: emails = self.provider.fetch_unread(limit=limit)
FetchUnread ==
    /\ pc = "fetching"
    /\ calls' = Append(calls, "fetch_unread")
    /\ \E out \in FetchOutcomes :
          IF out = "ok"
          THEN /\ emails' = fetch_unread(mailbox, limit)
               /\ pc' = IF emails' = <<>> THEN "empty" ELSE "categorizing"
               /\ UNCHANGED <<result, caught, failed_at, raised>>
          ELSE /\ Return("False", out, "fetch_unread")
               /\ UNCHANGED emails
    /\ mailbox' = MailboxAfterFetch(mailbox, limit)
    /\ UNCHANGED <<dry_run, notifier, limit, categorized,
                   collection, summaries, alerts, exit_code, categories>>
    /\ UNCHANGED organizerVars
    /\ UNCHANGED <<categorizerVars, providerVars>>

\* `if not emails:` -- send_alert("No new emails") when a notifier is set
\* and the run is not a dry run, then return True
EmptyInbox ==
    /\ pc = "empty"
    /\ IF Truthy(notifier) /\ ~dry_run
       THEN IF notifier.kind = "object"
            THEN /\ calls' = Append(calls, "send_alert")
                 /\ alerts' = Append(alerts, notifier.items[1])
                 /\ \E out \in SendOutcomes :
                       IF out = "NotifierError"
                       THEN Return("False", out, "send_alert")
                       ELSE Return("True", "none", "none")
            ELSE \* a list has no send_alert attribute
                 /\ Return("False", "AttributeError", "send_alert")
                 /\ UNCHANGED <<calls, alerts>>
       ELSE /\ Return("True", "none", "none")
            /\ UNCHANGED <<calls, alerts>>
    /\ UNCHANGED <<dry_run, notifier, limit, mailbox, emails, categorized,
                   collection, summaries, exit_code, categories>>
    /\ UNCHANGED organizerVars
    /\ UNCHANGED <<categorizerVars, providerVars>>

\* Step 3: categorized_emails = self.categorizer.categorize_batch(emails)
CategorizeBatch ==
    /\ pc = "categorizing"
    /\ calls' = Append(calls, "categorize_batch")
    /\ \E out \in CategorizeOutcomes :
          IF out = "ok"
          THEN /\ categorized' = categorize_batch(emails, categories)
               /\ pc' = "aggregating"
               /\ UNCHANGED <<result, caught, failed_at, raised>>
          ELSE /\ Return("False", out, "categorize_batch")
               /\ UNCHANGED categorized
    /\ UNCHANGED <<dry_run, notifier, limit, mailbox, emails, collection,
                   summaries, alerts, exit_code, categories>>
    /\ UNCHANGED organizerVars
    /\ UNCHANGED <<categorizerVars, providerVars>>

\* Step 4: build by_category and the EmailCollection
BuildCollection ==
    /\ pc = "aggregating"
    /\ collection' = EmailCollection(categorized, Len(emails),
                                     CountByCategory(categorized, <<>>))
    /\ pc' = "notifying"
    /\ UNCHANGED <<dry_run, notifier, limit, mailbox, emails, categorized,
                   result, caught, failed_at, raised, calls, summaries,
                   alerts, exit_code, categories>>
    /\ UNCHANGED organizerVars
    /\ UNCHANGED <<categorizerVars, providerVars>>

\* Mutant: the dry-run test before the notification is missing
Notify_IgnoresDryRun ==
    /\ pc = "notifying"
    /\ IF ~Truthy(notifier)
       THEN /\ Return("True", "none", "none")
            /\ UNCHANGED <<calls, summaries>>
       ELSE IF notifier.kind = "object"
       THEN /\ calls' = Append(calls, "send_summary")
            /\ summaries' = Append(summaries,
                                [to |-> notifier.items[1],
                                 collection |-> collection])
            /\ \E out \in SendOutcomes :
                  CASE out = "True"  -> Return("True", "none", "none")
                    [] out = "False" -> Return("False", "none", "send_summary")
                    [] OTHER         -> Return("False", out, "send_summary")
       ELSE /\ Return("False", "AttributeError", "send_summary")
            /\ UNCHANGED <<calls, summaries>>
    /\ UNCHANGED <<dry_run, notifier, limit, mailbox, emails, categorized,
                   collection, alerts, exit_code, categories>>
    /\ UNCHANGED organizerVars
    /\ UNCHANGED <<categorizerVars, providerVars>>

\* Step 5: send the notification unless dry-run or no notifier
Notify ==
    /\ pc = "notifying"
    /\ IF dry_run
       THEN /\ Return("True", "none", "none")
            /\ UNCHANGED <<calls, summaries>>
       ELSE IF ~Truthy(notifier)
       THEN /\ Return("True", "none", "none")
            /\ UNCHANGED <<calls, summaries>>
       ELSE IF notifier.kind = "object"
       THEN /\ calls' = Append(calls, "send_summary")
            /\ summaries' = Append(summaries,
                                [to |-> notifier.items[1],
                                 collection |-> collection])
            /\ \E out \in SendOutcomes :
                  CASE out = "True"  -> Return("True", "none", "none")
                    [] out = "False" -> Return("False", "none", "send_summary")
                    [] OTHER         -> Return("False", out, "send_summary")
       ELSE \* a list has no send_summary attribute
            /\ Return("False", "AttributeError", "send_summary")
            /\ UNCHANGED <<calls, summaries>>
    /\ UNCHANGED <<dry_run, notifier, limit, mailbox, emails, categorized,
                   collection, alerts, exit_code, categories>>
    /\ UNCHANGED organizerVars
    /\ UNCHANGED <<categorizerVars, providerVars>>

----------------------------------------------------------------------------
(* main: the exit status after processor.process() *)

ExitCode(success, exc) ==
    CASE exc = "CredentialError" -> 1
      [] exc = "ProviderError"   -> 2
      [] exc = "NotifierError"   -> 3
      [] exc = "ConfigError"     -> 1
      [] exc = "KeyboardInterrupt" -> 130
      [] exc # "none"            -> 99
      [] success = "True"        -> 0
      [] OTHER                   -> 3

MainExit ==
    /\ pc = "returned"
    /\ exit_code' = ExitCode(result, raised)
    /\ pc' = "exited"
    /\ UNCHANGED <<dry_run, notifier, limit, mailbox, emails, categorized,
                   collection, result, caught, failed_at, raised, calls,
                   summaries, alerts, categories>>
    /\ UNCHANGED organizerVars
    /\ UNCHANGED <<categorizerVars, providerVars>>

----------------------------------------------------------------------------
(* EmailAnalyzer: fetch_history and analyze_actions *)

LimitLog == 20

NoReport == [kind |-> "none", log |-> <<>>, trash_count |-> 0]

\* fetch_history: authenticate, fetch; any exception leaves self.emails empty
FetchHistory ==
    /\ org_pc = "start"
    /\ \E a \in AuthOutcomes, f \in FetchOutcomes :
          IF a = "CredentialError"
          THEN /\ calls' = Append(calls, "authenticate")
               /\ UNCHANGED emails
          ELSE /\ calls' = calls \o <<"authenticate", "fetch_unread">>
               /\ emails' = IF a = "True" /\ f = "ok"
                            THEN fetch_unread(mailbox, limit)
                            ELSE emails
    /\ org_pc' = "load"
    /\ UNCHANGED <<dry_run, notifier, limit, mailbox, pc, categorized,
                   collection, result, caught, failed_at, raised, summaries,
                   alerts, exit_code, categories>>
    /\ UNCHANGED <<organize, simulate, org_idx, actions_taken, trash_count,
                   report>>
    /\ UNCHANGED <<categorizerVars, providerVars>>

\* analyze_actions, loading the categories file
LoadCategories ==
    /\ org_pc = "load"
    /\ \E loaded \in BOOLEAN :
          IF loaded
          THEN /\ org_pc' = "loop"
               /\ UNCHANGED report
          ELSE /\ org_pc' = "done"
               /\ report' = [NoReport EXCEPT !.kind = "error"]
    /\ UNCHANGED <<dry_run, notifier, limit, mailbox, pc, emails, categorized,
                   collection, result, caught, failed_at, raised, calls,
                   summaries, alerts, exit_code, categories>>
    /\ UNCHANGED <<organize, simulate, org_idx, actions_taken, trash_count>>
    /\ UNCHANGED <<categorizerVars, providerVars>>

\* re.search(p, text, re.IGNORECASE)
Search(p, text) == Contains(LowerStr(text), <<Lower(p)>>)

\* is_pattern: any(...) over the patterns in order; an invalid pattern
\* raises re.error when it is reached
RECURSIVE IsPattern(_, _)
IsPattern(email, patterns) ==
    IF patterns = <<>> THEN "False"
    ELSE IF InvalidRegex(Head(patterns)) THEN "re.error"
    ELSE IF Search(Head(patterns), email.subject)
              \/ Search(Head(patterns), email.sender)
         THEN "True"
         ELSE IsPattern(email, Tail(patterns))

\* is_sender: any(s in email.sender for s in senders)
IsSender(email, senders) ==
    \E i \in 1..Len(senders) : Contains(email.sender, senders[i])

\* The `for cat_name, rules in categories.items()` loop: the first rule
\* that matches, or the error that ends the loop
RECURSIVE FirstMatch(_, _)
FirstMatch(email, cats) ==
    IF cats = <<>> THEN [kind |-> "none", rule |-> 0]
    ELSE LET is_sender == IsSender(email, Head(cats).senders)
             is_pattern == IsPattern(email, Head(cats).patterns)
         IN  IF is_pattern = "re.error"
             THEN [kind |-> "error", rule |-> 0]
             ELSE IF is_sender \/ is_pattern = "True"
                  THEN [kind |-> "match", rule |-> Len(categories) - Len(cats) + 1]
                  ELSE FirstMatch(email, Tail(cats))

\* sender.split('<')[0], stripped; "Unknown" when nothing is left
SenderClean(sender) ==
    LET idx == {i \in 1..Len(sender) : sender[i] = "<"}
        first == IF idx = {} THEN Len(sender) + 1
                 ELSE CHOOSE i \in idx : \A j \in idx : i <= j
        name == SubSeq(sender, 1, first - 1)
    IN  IF name = <<>> THEN <<"Unknown">> ELSE name

FullLabel(rule, email) == rule.root_label \o <<"/">> \o SenderClean(email.sender)

LogEntry(tag, email, target) ==
    [tag |-> tag, id |-> email.id, subject |-> email.subject,
     target |-> target]

\* Mutant: organize takes precedence over simulate
Organization_OrganizeWins(email, rule, sim) ==
    IF rule.action = "trash"
    THEN IF sim /\ ~organize
         THEN /\ actions_taken' = Append(actions_taken,
                                     LogEntry("TRASH", email, email.sender))
              /\ org_pc' = "loop"
              /\ UNCHANGED <<mailbox, calls>>
         ELSE /\ calls' = Append(calls, "move_to_trash")
              /\ \E out \in MutateOutcomes :
                    CASE out = "True" ->
                           /\ mailbox' = [mailbox EXCEPT !.trashed =
                                              @ \cup {email.id}]
                           /\ org_pc' = "loop"
                      [] out = "False" ->
                           /\ org_pc' = "loop"
                           /\ UNCHANGED mailbox
                      [] OTHER ->
                           /\ org_pc' = "crashed"
                           /\ UNCHANGED mailbox
              /\ UNCHANGED actions_taken
    ELSE IF rule.root_label # <<>>
    THEN IF sim /\ ~organize
         THEN /\ actions_taken' = Append(actions_taken,
                                     LogEntry("MOVE", email,
                                              FullLabel(rule, email)))
              /\ org_pc' = "loop"
              /\ UNCHANGED <<mailbox, calls>>
         ELSE /\ calls' = Append(calls, "add_label")
              /\ \E out \in MutateOutcomes :
                    mailbox' = IF out = "True"
                               THEN [mailbox EXCEPT !.labels = @ \cup
                                        {<<email.id, FullLabel(rule, email)>>}]
                               ELSE mailbox
              /\ org_pc' = "loop"
              /\ UNCHANGED actions_taken
    ELSE /\ org_pc' = "loop"
         /\ UNCHANGED <<mailbox, calls, actions_taken>>

\* The body of `if organize or simulate:` for a matched email.
\* move_to_trash is called outside any try: its ProviderError leaves
\* analyze_actions.  add_label and archive_email are inside a try whose
\* handler logs; no provider defines archive_email, so that call raises
\* AttributeError before reaching the provider.
Organization(email, rule, sim) ==
    IF rule.action = "trash"
    THEN IF sim
         THEN /\ actions_taken' = Append(actions_taken,
                                     LogEntry("TRASH", email, email.sender))
              /\ org_pc' = "loop"
              /\ UNCHANGED <<mailbox, calls>>
         ELSE /\ calls' = Append(calls, "move_to_trash")
              /\ \E out \in MutateOutcomes :
                    CASE out = "True" ->
                           /\ mailbox' = [mailbox EXCEPT !.trashed =
                                              @ \cup {email.id}]
                           /\ org_pc' = "loop"
                      [] out = "False" ->
                           /\ org_pc' = "loop"
                           /\ UNCHANGED mailbox
                      [] OTHER ->
                           /\ org_pc' = "crashed"
                           /\ UNCHANGED mailbox
              /\ UNCHANGED actions_taken
    ELSE IF rule.root_label # <<>>
    THEN IF sim
         THEN /\ actions_taken' = Append(actions_taken,
                                     LogEntry("MOVE", email,
                                              FullLabel(rule, email)))
              /\ org_pc' = "loop"
              /\ UNCHANGED <<mailbox, calls>>
         ELSE /\ calls' = Append(calls, "add_label")
              /\ \E out \in MutateOutcomes :
                    mailbox' = IF out = "True"
                               THEN [mailbox EXCEPT !.labels = @ \cup
                                        {<<email.id, FullLabel(rule, email)>>}]
                               ELSE mailbox
              /\ org_pc' = "loop"
              /\ UNCHANGED actions_taken
    ELSE /\ org_pc' = "loop"
         /\ UNCHANGED <<mailbox, calls, actions_taken>>

\* One iteration of `for email in self.emails:`
OrganizeEmail ==
    /\ org_pc = "loop"
    /\ org_idx <= Len(emails)
    /\ LET email == emails[org_idx]
           m == FirstMatch(email, categories)
       IN  CASE m.kind = "error" ->
                 /\ org_pc' = "crashed"
                 /\ UNCHANGED <<org_idx, trash_count, mailbox, calls,
                                actions_taken>>
             [] m.kind = "none" ->
                 /\ org_idx' = org_idx + 1
                 /\ UNCHANGED <<org_pc, trash_count, mailbox, calls,
                                actions_taken>>
             [] OTHER ->
                 LET rule == categories[m.rule]
                 IN  /\ trash_count' = IF rule.action = "trash"
                                       THEN trash_count + 1
                                       ELSE trash_count
                     /\ IF organize \/ simulate
                        THEN Organization(email, rule, simulate)
                        ELSE UNCHANGED <<org_pc, mailbox, calls,
                                         actions_taken>>
                     /\ org_idx' = IF org_pc' = "crashed" THEN org_idx
                                   ELSE org_idx + 1
    /\ UNCHANGED <<dry_run, notifier, limit, pc, emails, categorized,
                   collection, result, caught, failed_at, raised, summaries,
                   alerts, exit_code, categories>>
    /\ UNCHANGED <<organize, simulate, report>>
    /\ UNCHANGED <<categorizerVars, providerVars>>

\* After the loop: the report, with at most LimitLog log lines
GenerateReport ==
    /\ org_pc = "loop"
    /\ org_idx > Len(emails)
    /\ report' = [kind |-> "brief",
                  log |-> SubSeq(actions_taken, 1,
                                 Min(LimitLog, Len(actions_taken))),
                  trash_count |-> trash_count]
    /\ org_pc' = "done"
    /\ UNCHANGED <<dry_run, notifier, limit, mailbox, pc, emails, categorized,
                   collection, result, caught, failed_at, raised, calls,
                   summaries, alerts, exit_code, categories>>
    /\ UNCHANGED <<organize, simulate, org_idx, actions_taken, trash_count>>
    /\ UNCHANGED <<categorizerVars, providerVars>>

----------------------------------------------------------------------------
(* Specification of the pipeline *)

\* The sequences of at most n distinct messages
InjectiveSeqs(S, n) ==
    {q \in UNION {[1..k -> S] : k \in 0..n} :
        \A i, j \in 1..Len(q) : i # j => q[i] # q[j]}

Mailbox(unread) ==
    [unread |-> unread, trashed |-> {}, labels |-> {}, read |-> {}]

\* No categorizer has been constructed on its own
IdleCategorizer ==
    /\ cz_impl = "none"
    /\ cz_source = [kind |-> "none", raw |-> <<>>]
    /\ cz_pc = "idle"
    /\ cz_error = NoError
    /\ cz_matches = <<>>
    /\ cz_single = <<>>
    /\ cz_names = <<>>

\* No provider operation has been invoked directly
IdleProvider ==
    /\ prov_impl = "none"
    /\ prov_service = FALSE
    /\ prov_op = <<>>
    /\ prov_api = <<>>
    /\ prov_result = "none"
    /\ prov_msg = "none"
    /\ prov_count = 0

\* process() and main() are not running
IdlePipeline ==
    /\ dry_run = FALSE
    /\ notifier = NoNotifier
    /\ limit = 1
    /\ pc = "idle"
    /\ categorized = <<>>
    /\ collection = NoCollection
    /\ result = "none"
    /\ caught = "none"
    /\ failed_at = "none"
    /\ raised = "none"
    /\ calls = <<>>
    /\ summaries = <<>>
    /\ alerts = <<>>
    /\ exit_code = -1

\* analyze_actions is not running
IdleOrganizer ==
    /\ organize = FALSE
    /\ simulate = FALSE
    /\ org_pc = "start"
    /\ org_idx = 1
    /\ actions_taken = <<>>
    /\ trash_count = 0
    /\ report = NoReport

Init ==
    /\ dry_run \in BOOLEAN
    /\ notifier \in NotifierArgs
    /\ limit \in 1..MaxLimit
    /\ mailbox \in {Mailbox(u) : u \in InjectiveSeqs(EmailPool, MaxEmails)}
    /\ categories \in ConfigPool
    /\ pc = "idle"
    /\ emails = <<>>
    /\ categorized = <<>>
    /\ collection = NoCollection
    /\ result = "none"
    /\ caught = "none"
    /\ failed_at = "none"
    /\ raised = "none"
    /\ calls = <<>>
    /\ summaries = <<>>
    /\ alerts = <<>>
    /\ exit_code = -1
    /\ organize = FALSE
    /\ simulate = FALSE
    /\ org_pc = "start"
    /\ org_idx = 1
    /\ actions_taken = <<>>
    /\ trash_count = 0
    /\ report = NoReport
    /\ IdleCategorizer
    /\ IdleProvider

Next ==
    \/ Authenticate
    \/ FetchUnread
    \/ EmptyInbox
    \/ CategorizeBatch
    \/ BuildCollection
    \/ Notify
    \/ MainExit

Spec == Init /\ [][Next]_vars

----------------------------------------------------------------------------
(* Specification of the organizer *)

InitOrganizer ==
    /\ organize \in BOOLEAN
    /\ simulate \in BOOLEAN
    /\ limit \in 1..MaxLimit
    /\ mailbox \in {Mailbox(u) : u \in InjectiveSeqs(EmailPool, MaxEmails)}
    /\ categories \in ConfigPool
    /\ org_pc = "start"
    /\ org_idx = 1
    /\ actions_taken = <<>>
    /\ trash_count = 0
    /\ report = NoReport
    /\ emails = <<>>
    /\ calls = <<>>
    /\ dry_run = FALSE
    /\ notifier = NoNotifier
    /\ pc = "idle"
    /\ categorized = <<>>
    /\ collection = NoCollection
    /\ result = "none"
    /\ caught = "none"
    /\ failed_at = "none"
    /\ raised = "none"
    /\ summaries = <<>>
    /\ alerts = <<>>
    /\ exit_code = -1
    /\ IdleCategorizer
    /\ IdleProvider

NextOrganizer ==
    \/ FetchHistory
    \/ LoadCategories
    \/ OrganizeEmail
    \/ GenerateReport

SpecOrganizer == InitOrganizer /\ [][NextOrganizer]_vars

----------------------------------------------------------------------------
(* Specification of a categorizer used on its own: it is constructed from a *)
(* configuration source, then asked to categorize the messages of `emails`  *)
(* one by one, to categorize them as a batch and to list its categories.    *)

Construct ==
    /\ cz_pc = "new"
    /\ LET out == IF cz_impl = "regex" THEN _load_rules(cz_source)
                  ELSE SimpleCategorizer_init(cz_source)
       IN  /\ cz_error' = out.error
           /\ categories' = out.rules
           /\ cz_pc' = IF out.error = NoError THEN "ready" ELSE "failed"
    /\ UNCHANGED <<cz_impl, cz_source, cz_matches, cz_single, cz_names>>
    /\ UNCHANGED <<dry_run, notifier, limit, mailbox, pc, emails, categorized,
                   collection, result, caught, failed_at, raised, calls,
                   summaries, alerts, exit_code>>
    /\ UNCHANGED <<organizerVars, providerVars>>

\* An AttributeError leaves the call: SimpleCategorizer keeps whatever JSON
\* it loaded and meets the wrong structure only when it walks the categories
Crash ==
    /\ cz_error' = [class |-> "AttributeError", msg |-> "none"]
    /\ cz_pc' = "crashed"

\* categorize(email) on the next message of `emails`
CategorizeSingle ==
    /\ cz_pc = "ready"
    /\ Len(cz_single) < Len(emails)
    /\ LET email == emails[Len(cz_single) + 1]
       IN  IF cz_impl = "regex"
           THEN /\ cz_matches' =
                       Append(cz_matches, RegexMatches(email, categories))
                /\ cz_single' =
                       Append(cz_single,
                              RegexCategorizer_categorize(email, categories))
                /\ UNCHANGED <<cz_pc, cz_error>>
           ELSE IF StructureFails(cz_source)
           THEN /\ Crash
                /\ UNCHANGED <<cz_matches, cz_single>>
           ELSE /\ cz_matches' = Append(cz_matches, Matches(email, categories))
                /\ cz_single' = Append(cz_single, categorize(email, categories))
                /\ UNCHANGED <<cz_pc, cz_error>>
    /\ calls' = Append(calls, "categorize")
    /\ UNCHANGED <<cz_impl, cz_source, cz_names>>
    /\ UNCHANGED <<dry_run, notifier, limit, mailbox, pc, emails, categorized,
                   collection, result, caught, failed_at, raised, summaries,
                   alerts, exit_code, categories>>
    /\ UNCHANGED <<organizerVars, providerVars>>

\* categorize_batch(emails)
CategorizeMany ==
    /\ cz_pc = "ready"
    /\ \A i \in 1..Len(calls) : calls[i] # "categorize_batch"
    /\ IF cz_impl = "regex"
       THEN /\ categorized' =
                   RegexCategorizer_categorize_batch(emails, categories)
            /\ UNCHANGED <<cz_pc, cz_error>>
       ELSE IF StructureFails(cz_source) /\ emails # <<>>
       THEN /\ Crash
            /\ UNCHANGED categorized
       ELSE /\ categorized' = categorize_batch(emails, categories)
            /\ UNCHANGED <<cz_pc, cz_error>>
    /\ calls' = Append(calls, "categorize_batch")
    /\ UNCHANGED <<cz_impl, cz_source, cz_matches, cz_single, cz_names>>
    /\ UNCHANGED <<dry_run, notifier, limit, mailbox, pc, emails, collection,
                   result, caught, failed_at, raised, summaries, alerts,
                   exit_code, categories>>
    /\ UNCHANGED <<organizerVars, providerVars>>

\* get_categories()
GetCategories ==
    /\ cz_pc = "ready"
    /\ \A i \in 1..Len(calls) : calls[i] # "get_categories"
    /\ IF cz_impl = "regex"
       THEN /\ cz_names' = RegexCategorizer_get_categories(categories)
            /\ UNCHANGED <<cz_pc, cz_error>>
       ELSE IF cz_source.kind = "json_list"
       THEN /\ Crash
            /\ UNCHANGED cz_names
       ELSE /\ cz_names' = SimpleCategorizer_get_categories(categories)
            /\ UNCHANGED <<cz_pc, cz_error>>
    /\ calls' = Append(calls, "get_categories")
    /\ UNCHANGED <<cz_impl, cz_source, cz_matches, cz_single>>
    /\ UNCHANGED <<dry_run, notifier, limit, mailbox, pc, emails, categorized,
                   collection, result, caught, failed_at, raised, summaries,
                   alerts, exit_code, categories>>
    /\ UNCHANGED <<organizerVars, providerVars>>

InitCategorizer ==
    /\ cz_impl \in {"regex", "simple"}
    /\ cz_source \in ConfigSources
    /\ emails \in InjectiveSeqs(CategorizerEmailPool, MaxEmails)
    /\ cz_pc = "new"
    /\ cz_error = NoError
    /\ cz_matches = <<>>
    /\ cz_single = <<>>
    /\ cz_names = <<>>
    /\ categories = <<>>
    /\ mailbox = Mailbox(<<>>)
    /\ IdlePipeline
    /\ IdleOrganizer
    /\ IdleProvider

NextCategorizer ==
    \/ Construct
    \/ CategorizeSingle
    \/ CategorizeMany
    \/ GetCategories

SpecCategorizer == InitCategorizer /\ [][NextCategorizer]_vars

----------------------------------------------------------------------------
(* The EmailProvider implementations used on their own:                     *)
(*   "oauth2"          GmailOAuth2Provider (src/providers)                  *)
(*   "service_account" GmailProvider (src/providers)                        *)
(*   "flat"            GmailProvider (src/gmail_provider.py)                *)
(* An operation issues its remote requests in order; fail_at is the rank of *)
(* the request the remote API rejects, 0 when it accepts them all.          *)

Providers == {"oauth2", "service_account", "flat"}

Outcome(result_, msg, requests) ==
    [result |-> result_, msg |-> msg, requests |-> requests]

\* The operation was called while self.service is None.  The OAuth2 and the
\* flat provider test for it; the service-account provider runs into an
\* AttributeError inside its try block and returns False.
Unauthenticated(impl) ==
    IF impl = "service_account" THEN Outcome("False", "none", <<>>)
    ELSE Outcome("ProviderError",
                 "Not authenticated. Call authenticate() first.", <<>>)

\* except Exception: return False (service-account provider) or
\* raise ProviderError (OAuth2 and flat provider)
Failed(impl, msg, requests) ==
    IF impl = "service_account" THEN Outcome("False", "none", requests)
    ELSE Outcome("ProviderError", msg, requests)

mark_as_read(impl, service, fail_at) ==
    IF ~service THEN Unauthenticated(impl)
    ELSE IF fail_at = 0 THEN Outcome("True", "none", <<"messages.modify">>)
    ELSE Failed(impl, "Failed to mark email as read", <<"messages.modify">>)

\* The requests of add_label: look the label up, create it when it does not
\* exist, then modify the message
LabelRequests(exists) ==
    <<"labels.list">> \o (IF exists THEN <<>> ELSE <<"labels.create">>)
        \o <<"messages.modify">>

add_label(impl, service, exists, fail_at) ==
    IF ~service THEN Unauthenticated(impl)
    ELSE IF fail_at = 0 THEN Outcome("True", "none", LabelRequests(exists))
    ELSE Failed(impl, "Failed to add label",
                SubSeq(LabelRequests(exists), 1, fail_at))

move_to_trash(impl, service, fail_at) ==
    IF ~service THEN Unauthenticated(impl)
    ELSE IF fail_at = 0 THEN Outcome("True", "none", <<"messages.trash">>)
    ELSE Failed(impl, "Failed to move email to trash", <<"messages.trash">>)

\* The requests of fetch_unread: list the unread messages, then get each
FetchRequests(box, n) ==
    <<"messages.list">>
        \o [i \in 1..Min(n, Len(box.unread)) |-> "messages.get"]

\* fetch_unread(limit) as the provider classes implement it; the value
\* "list" stands for the returned list of emails
provider_fetch_unread(impl, service, fail_at, box, n) ==
    IF ~service
    THEN Outcome("ProviderError",
                 "Not authenticated. Call authenticate() first.", <<>>)
    ELSE IF fail_at = 0 THEN Outcome("list", "none", FetchRequests(box, n))
    ELSE Outcome("ProviderError", "Failed to fetch emails", <<"messages.list">>)

MailboxIds(box) == {box.unread[i].id : i \in 1..Len(box.unread)}

PoolIds == {e.id : e \in EmailPool}

\* authenticate(): sets self.service and returns True, or raises
ProviderAuthenticate ==
    /\ prov_impl \in Providers
    /\ prov_count < MaxOps
    /\ \E ok \in BOOLEAN :
          /\ prov_service' = (prov_service \/ ok)
          /\ prov_result' = IF ok THEN "True" ELSE "CredentialError"
          /\ prov_msg' = IF ok THEN "none" ELSE "Gmail authentication failed"
    /\ prov_op' = <<"authenticate">>
    /\ prov_api' = <<>>
    /\ prov_count' = prov_count + 1
    /\ UNCHANGED <<prov_impl, mailbox>>
    /\ UNCHANGED <<pipelineVars, calls, categories>>
    /\ UNCHANGED <<organizerVars, categorizerVars>>

MarkAsRead ==
    /\ prov_impl \in Providers
    /\ prov_count < MaxOps
    /\ \E id \in PoolIds, fail_at \in 0..1 :
          /\ fail_at = 0 => id \in MailboxIds(mailbox)
          /\ LET out == mark_as_read(prov_impl, prov_service, fail_at)
             IN  /\ prov_result' = out.result
                 /\ prov_msg' = out.msg
                 /\ prov_api' = out.requests
                 /\ mailbox' = IF out.result = "True"
                               THEN [mailbox EXCEPT !.read = @ \cup {id}]
                               ELSE mailbox
          /\ prov_op' = <<"mark_as_read", id>>
    /\ prov_count' = prov_count + 1
    /\ UNCHANGED <<prov_impl, prov_service>>
    /\ UNCHANGED <<pipelineVars, calls, categories>>
    /\ UNCHANGED <<organizerVars, categorizerVars>>

AddLabel ==
    /\ prov_impl \in Providers
    /\ prov_count < MaxOps
    /\ \E id \in PoolIds, exists \in BOOLEAN, fail_at \in 0..3 :
          /\ fail_at <= Len(LabelRequests(exists))
          /\ fail_at = 0 => id \in MailboxIds(mailbox)
          /\ LET out == add_label(prov_impl, prov_service, exists, fail_at)
             IN  /\ prov_result' = out.result
                 /\ prov_msg' = out.msg
                 /\ prov_api' = out.requests
                 /\ mailbox' = IF out.result = "True"
                               THEN [mailbox EXCEPT !.labels =
                                         @ \cup {<<id, <<"Finance">> >>}]
                               ELSE mailbox
          /\ prov_op' = <<"add_label", id>>
    /\ prov_count' = prov_count + 1
    /\ UNCHANGED <<prov_impl, prov_service>>
    /\ UNCHANGED <<pipelineVars, calls, categories>>
    /\ UNCHANGED <<organizerVars, categorizerVars>>

MoveToTrash ==
    /\ prov_impl \in Providers
    /\ prov_count < MaxOps
    /\ \E id \in PoolIds, fail_at \in 0..1 :
          /\ fail_at = 0 => id \in MailboxIds(mailbox)
          /\ LET out == move_to_trash(prov_impl, prov_service, fail_at)
             IN  /\ prov_result' = out.result
                 /\ prov_msg' = out.msg
                 /\ prov_api' = out.requests
                 /\ mailbox' = IF out.result = "True"
                               THEN [mailbox EXCEPT !.trashed = @ \cup {id}]
                               ELSE mailbox
          /\ prov_op' = <<"move_to_trash", id>>
    /\ prov_count' = prov_count + 1
    /\ UNCHANGED <<prov_impl, prov_service>>
    /\ UNCHANGED <<pipelineVars, calls, categories>>
    /\ UNCHANGED <<organizerVars, categorizerVars>>

ProviderFetchUnread ==
    /\ prov_impl \in Providers
    /\ prov_count < MaxOps
    /\ \E fail_at \in 0..1 :
          LET out == provider_fetch_unread(prov_impl, prov_service, fail_at,
                                           mailbox, limit)
          IN  /\ prov_result' = out.result
              /\ prov_msg' = out.msg
              /\ prov_api' = out.requests
              /\ emails' = IF out.result = "list"
                           THEN fetch_unread(mailbox, limit)
                           ELSE emails
    /\ prov_op' = <<"fetch_unread">>
    /\ prov_count' = prov_count + 1
    /\ UNCHANGED <<prov_impl, prov_service, mailbox>>
    /\ UNCHANGED <<dry_run, notifier, limit, pc, categorized, collection,
                   result, caught, failed_at, raised, summaries, alerts,
                   exit_code, calls, categories>>
    /\ UNCHANGED <<organizerVars, categorizerVars>>

InitProvider ==
    /\ prov_impl \in Providers
    /\ prov_service = FALSE
    /\ prov_op = <<>>
    /\ prov_api = <<>>
    /\ prov_result = "none"
    /\ prov_msg = "none"
    /\ prov_count = 0
    /\ mailbox \in {Mailbox(u) : u \in InjectiveSeqs(EmailPool, MaxEmails)}
    /\ emails = <<>>
    /\ categories = <<>>
    /\ IdlePipeline
    /\ IdleOrganizer
    /\ IdleCategorizer

NextProvider ==
    \/ ProviderAuthenticate
    \/ ProviderFetchUnread
    \/ MarkAsRead
    \/ AddLabel
    \/ MoveToTrash

SpecProvider == InitProvider /\ [][NextProvider]_vars

----------------------------------------------------------------------------
(* Properties of the pipeline *)

Finished == pc \in {"returned", "exited"}

Occurs(op) == \E i \in 1..Len(calls) : calls[i] = op

\* fetch_unread returned normally and returned no message
FetchedNothing ==
    /\ Occurs("fetch_unread")
    /\ failed_at # "fetch_unread"
    /\ emails = <<>>

RECURSIVE SumCounts(_, _)
SumCounts(f, keys) ==
    IF keys = {} THEN 0
    ELSE LET k == CHOOSE x \in keys : TRUE
         IN  f[k] + SumCounts(f, keys \ {k})

Stage(op) ==
    CASE op = "authenticate"     -> 1
      [] op = "fetch_unread"     -> 2
      [] op = "categorize_batch" -> 3
      [] OTHER                   -> 4

\* C1: a dry-run never calls send_summary on any notifier, whatever the
\* number of fetched messages and whether or not a notifier is configured.
DryRunNeverSendsSummary ==
    dry_run => summaries = <<>> /\ ~Occurs("send_summary")

DryRunWitness ==
    /\ dry_run
    /\ Finished
    /\ collection.built
    /\ notifier = OneNotifier
    /\ result = "True"

\* C2: when fetch_unread returns zero messages the run ends successfully,
\* with an empty result, and has invoked neither the categorizer nor any
\* notifier operation (no send_summary, no send_alert), dry-run or not.
EmptyFetchInvokesNothing ==
    (Finished /\ FetchedNothing /\ notifier.kind # "list") =>
        /\ result = "True"
        /\ collection.total_count = 0
        /\ ~Occurs("categorize_batch")
        /\ summaries = <<>>
        /\ alerts = <<>>

\* C3: once categorization has completed, the run is reported successful
\* whatever the outcome of the notifier: a send_summary that raises or
\* returns False never makes the run fail.
NotifierFailureNeverFailsRun ==
    (Finished /\ collection.built /\ notifier.kind # "list") =>
        result = "True"

\* C4: in a run that is not a dry run and fetched at least one message,
\* send_summary is invoked exactly once on every configured notifier, in
\* configured order, with the built collection.
EveryNotifierGetsSummaryOnce ==
    (Finished /\ ~dry_run /\ collection.built) =>
        /\ Len(summaries) = Len(notifier.items)
        /\ \A i \in 1..Len(summaries) :
              /\ summaries[i].to = notifier.items[i]
              /\ summaries[i].collection = collection

\* C5: when authenticate, fetch or categorize fails, no operation of a
\* later stage is invoked in that run and the run ends as failed.
FailedStageStopsRun ==
    /\ failed_at = "authenticate" =>
          /\ ~Occurs("fetch_unread")
          /\ ~Occurs("categorize_batch")
          /\ summaries = <<>> /\ alerts = <<>>
    /\ failed_at = "fetch_unread" =>
          /\ ~Occurs("categorize_batch")
          /\ summaries = <<>> /\ alerts = <<>>
    /\ failed_at = "categorize_batch" =>
          /\ ~collection.built
          /\ summaries = <<>> /\ alerts = <<>>
    /\ failed_at \in {"authenticate", "fetch_unread", "categorize_batch"} =>
          /\ pc # "exited" => Finished /\ result = "False"
          /\ pc = "exited" => result = "False" /\ exit_code # 0

FailedStageWitness ==
    /\ pc = "exited"
    /\ failed_at = "categorize_batch"
    /\ notifier = OneNotifier
    /\ ~dry_run

\* C6: a fatal failure in authentication, fetch or categorization leaves
\* the pipeline run as an error of its own kind, towards the caller,
\* instead of being absorbed into an ordinary return value.
FatalFailurePropagates ==
    (/\ Finished
     /\ failed_at \in {"authenticate", "fetch_unread", "categorize_batch"}
     /\ caught # "none") =>
        /\ raised = caught
        /\ result = "none"

\* C7: the collaborator calls of one run occur in the order authenticate,
\* fetch_unread, categorize_batch, notification; each stage is entered at
\* most once and never again after a later stage has started.
StagesInOrder ==
    \A i, j \in 1..Len(calls) :
        i < j => Stage(calls[i]) < Stage(calls[j])

StagesInOrderWitness ==
    calls = <<"authenticate", "fetch_unread", "categorize_batch",
              "send_summary">>

\* C8: for every collection the orchestrator builds, total_count is the
\* length of its sequence of categorized messages and the by_category
\* counts sum to total_count.
CollectionCountsAgree ==
    collection.built =>
        /\ collection.total_count = Len(collection.emails)
        /\ SumCounts(collection.by_category,
                     DOMAIN collection.by_category)
              = collection.total_count

CollectionCountsWitness ==
    /\ collection.built
    /\ collection.total_count = 2
    /\ \E i \in 1..2 : collection.emails[i].category = "Uncategorized"
    /\ \E i \in 1..2 : collection.emails[i].category # "Uncategorized"

\* C9: the pipeline run never invokes a mailbox-mutating provider operation
\* and leaves the remote mailbox unchanged in every step.
PipelineNeverMutatesMailbox ==
    [][/\ mailbox' = mailbox
       /\ \A i \in 1..Len(calls') : calls'[i] \notin MutatingOps]_vars

PipelineRanWitness ==
    /\ pc = "exited"
    /\ Occurs("send_summary")
    /\ Len(mailbox.unread) = 2
    /\ Len(emails) = 2

----------------------------------------------------------------------------
(* Properties of the organizer *)

Mutated ==
    \/ mailbox.trashed # {}
    \/ mailbox.labels # {}
    \/ mailbox.read # {}
    \/ \E i \in 1..Len(calls) : calls[i] \in MutatingOps

\* The matched email at position i carries a trash or a label action
HasAction(i) ==
    LET m == FirstMatch(emails[i], categories)
    IN  /\ m.kind = "match"
        /\ \/ categories[m.rule].action = "trash"
           \/ categories[m.rule].root_label # <<>>

\* Ids of the emails before position n that carry an action, in order
RECURSIVE ActionIds(_)
ActionIds(n) ==
    IF n = 0 THEN <<>>
    ELSE ActionIds(n - 1) \o (IF HasAction(n) THEN <<emails[n].id>> ELSE <<>>)

\* C10: the organizer performs a provider mailbox mutation only when
\* organize is set and simulate is not; in simulate mode, whatever organize
\* is, the action of each matched email is appended to the action log and
\* no provider mutation is called.
OrganizerMutatesOnlyWhenOrganizing ==
    /\ Mutated => organize /\ ~simulate
    /\ simulate =>
          /\ ~Mutated
          /\ [k \in 1..Len(actions_taken) |-> actions_taken[k].id]
                = ActionIds(org_idx - 1)

OrganizerSimulateWitness ==
    /\ simulate
    /\ organize
    /\ org_pc = "done"
    /\ report.kind = "brief"
    /\ Len(report.log) = 2
    /\ report.log[1].tag = "TRASH"
    /\ report.log[2].tag = "MOVE"

----------------------------------------------------------------------------
(* Properties of the categorizers *)

RuleNames == {categories[i].name : i \in 1..Len(categories)}

\* A candidate of `matches`: its category and the priority it is sorted by
MatchCategory(m) == IF cz_impl = "regex" THEN m.category ELSE m[1]

MatchPriority(m) == IF cz_impl = "regex" THEN m.priority ELSE m[2]

Qualifying(matches) == {MatchCategory(matches[k]) : k \in 1..Len(matches)}

\* The rules of the loaded configuration that qualify for the message
QualifyingFor(email) ==
    IF cz_impl = "regex" THEN Qualifying(RegexMatches(email, categories))
    ELSE Qualifying(Matches(email, categories))

\* C11: categorization is total: whatever the rule set and the message,
\* single and batch categorization return one category, which is the name
\* of a rule of the rule set or "Uncategorized".
CategorizationIsTotal ==
    /\ \A i \in 1..Len(cz_single) :
           cz_single[i] \in RuleNames \cup {"Uncategorized"}
    /\ \A i \in 1..Len(categorized) :
           categorized[i].category \in RuleNames \cup {"Uncategorized"}

CategorizationIsTotalWitness ==
    /\ Len(cz_single) = 2
    /\ cz_single[1] = "Uncategorized"
    /\ cz_single[2] \in RuleNames
    /\ Len(categorized) = 2
    /\ categorized[1].category = "Uncategorized"

\* C12: a message that matches zero rules is categorized "Uncategorized"
\* with confidence 0.0 and the reason "No rules matched", by single and by
\* batch categorization.
UnmatchedIsUncategorized ==
    /\ \A i \in 1..Len(cz_single) :
           cz_matches[i] = <<>> => cz_single[i] = "Uncategorized"
    /\ \A i \in 1..Len(categorized) :
           QualifyingFor(categorized[i].email) = {} =>
               /\ categorized[i].category = "Uncategorized"
               /\ categorized[i].confidence = 0
               /\ categorized[i].reason = <<"No rules matched">>

\* C13: when several categories qualify, the returned category is one of
\* minimal priority among the qualifying ones; with Alpha at 1 and Beta at
\* 2 both qualifying, Alpha is returned.
LowestPriorityWins ==
    \A i \in 1..Len(cz_single) :
        cz_matches[i] # <<>> =>
            /\ \E k \in 1..Len(cz_matches[i]) :
                   /\ MatchCategory(cz_matches[i][k]) = cz_single[i]
                   /\ \A j \in 1..Len(cz_matches[i]) :
                          MatchPriority(cz_matches[i][k])
                              <= MatchPriority(cz_matches[i][j])
            /\ {"Alpha", "Beta"} \subseteq Qualifying(cz_matches[i]) =>
                   cz_single[i] = "Alpha"

LowestPriorityWinsWitness ==
    \E i \in 1..Len(cz_single) :
        /\ {"Alpha", "Beta"} \subseteq Qualifying(cz_matches[i])
        /\ MatchCategory(cz_matches[i][1]) = "Beta"
        /\ cz_single[i] = "Alpha"

\* C14: a rule whose patterns and senders are both empty never qualifies
\* for a message, and its category is never returned.
EmptyRuleNeverQualifies ==
    \A r \in 1..Len(categories) :
        categories[r].patterns = <<>> /\ categories[r].senders = <<>> =>
            /\ \A i \in 1..Len(cz_single) :
                   /\ categories[r].name \notin Qualifying(cz_matches[i])
                   /\ cz_single[i] # categories[r].name
            /\ \A i \in 1..Len(categorized) :
                   categorized[i].category # categories[r].name

\* C15: categories() returns every configured category name in
\* alphabetical order, followed by "Uncategorized" as the last element.
CategoriesSortedThenUncategorized ==
    (\E c \in 1..Len(calls) : calls[c] = "get_categories") =>
        /\ Len(cz_names) = Len(categories) + 1
        /\ cz_names[Len(cz_names)] = "Uncategorized"
        /\ {cz_names[i] : i \in 1..(Len(cz_names) - 1)} = RuleNames
        /\ \A i, j \in 1..(Len(cz_names) - 1) :
               i < j => NameRank(cz_names[i]) < NameRank(cz_names[j])

\* C16: loading fails with a config-not-found error when the source does
\* not exist and with a config-malformed error when it is not valid JSON;
\* in both cases there is no categorizer: nothing is loaded, nothing can be
\* asked of it.
LoadFailsOnBadSource ==
    cz_pc \notin {"idle", "new"} =>
        /\ cz_source.kind = "missing" =>
               /\ cz_pc = "failed"
               /\ cz_error.class \in {"CategorizerError", "ConfigError"}
               /\ cz_error.msg = "Categories config not found"
               /\ categories = <<>>
               /\ calls = <<>>
        /\ cz_source.kind = "invalid_json" =>
               /\ cz_pc = "failed"
               /\ cz_error.class \in {"CategorizerError", "ConfigError"}
               /\ cz_error.msg = "Invalid JSON in"
               /\ categories = <<>>
               /\ calls = <<>>

LoadFailsOnBadSourceWitness ==
    /\ cz_source.kind = "missing"
    /\ cz_pc = "failed"
    /\ cz_impl = "regex"
    /\ Len(emails) = 2

\* C17: when categorize_batch returns, it returns one result per input
\* message, in input order, and the category of the i-th result is the
\* category that categorize assigned to the i-th input.
BatchAgreesWithSingle ==
    (/\ \E c \in 1..Len(calls) : calls[c] = "categorize_batch"
     /\ cz_pc # "crashed") =>
        /\ Len(categorized) = Len(emails)
        /\ \A i \in 1..Len(categorized) :
               /\ categorized[i].email = emails[i]
               /\ i <= Len(cz_single) =>
                      categorized[i].category = cz_single[i]

BatchAgreesWithSingleWitness ==
    /\ Len(categorized) = 2
    /\ Len(cz_single) = 2
    /\ categorized[1].category # categorized[2].category
    /\ categorized[2].category # "Uncategorized"
    /\ categorized[1].category # "Uncategorized"

\* The address of a sender field: what stands between "<" and ">" when the
\* field has the form "Display Name <address>", the field itself otherwise
Address(sender) ==
    IF \E i, j \in 1..Len(sender) :
           sender[i] = "<" /\ sender[j] = ">" /\ i < j
    THEN LET i == CHOOSE a \in 1..Len(sender) : sender[a] = "<"
             j == CHOOSE b \in 1..Len(sender) : sender[b] = ">"
         IN  SubSeq(sender, i + 1, j - 1)
    ELSE sender

----------------------------------------------------------------------------
(* Properties of main's exit status and of the providers *)

\* C19: the run exits with 0 on success, and a fatal stage failure yields
\* a nonzero status that is distinct per error kind: a credential failure,
\* a provider failure and a notifier failure raised during the run end
\* with the statuses main assigns to these kinds (1, 2 and 3), not all
\* with the same one.
ExitStatusPerErrorKind ==
    pc = "exited" =>
        /\ result = "True" => exit_code = 0
        /\ result # "True" => exit_code # 0
        /\ caught \in {"CredentialError", "ProviderError", "NotifierError"}
               => exit_code = ExitCode("False", caught)

\* C20: on every provider, mark_as_read, add_label and move_to_trash report
\* a failed operation by returning False and return True only when the
\* operation succeeded; they do not raise.  Stated for an authenticated
\* provider, whose operations fail when the remote API rejects a request.
MailboxOperationsReturnBool ==
    (/\ prov_op # <<>>
     /\ prov_op[1] \in {"mark_as_read", "add_label", "move_to_trash"}
     /\ prov_service)
        => /\ prov_result \in {"True", "False"}
           /\ prov_result = "True" => prov_op[2] \in MailboxIds(mailbox)

----------------------------------------------------------------------------
(* Properties of rule matching *)

Text(email) == email.subject \o email.snippet

\* Some sender entry of the rule matches the sender, as the class in use
\* matches sender entries
SenderAxisMatches(email, rule) ==
    IF cz_impl = "regex"
    THEN SenderCandidates(rule, rule.senders, email) # <<>>
    ELSE _matches_sender(email.sender, rule.senders)

\* Some content pattern of the rule matches subject+snippet, as the class
\* in use matches patterns
PatternAxisMatches(email, rule) ==
    IF cz_impl = "regex"
    THEN PatternCandidates(rule, rule.patterns, email) # <<>>
    ELSE _matches_patterns(LowerStr(Text(email)), rule.patterns)

\* The priority the class in use sorts the rule by
RulePriority(r) ==
    IF cz_impl = "regex" THEN categories[r].priority
    ELSE Priority(categories[r])

\* C21: a rule qualifies for a message as soon as one sender entry matches
\* the sender or one content pattern matches subject+snippet, even when the
\* rule has entries on both axes and the other axis does not match.
EitherAxisQualifies ==
    \A i \in 1..Len(cz_single) :
        \A r \in 1..Len(categories) :
            \/ SenderAxisMatches(emails[i], categories[r])
            \/ PatternAxisMatches(emails[i], categories[r])
            => categories[r].name \in Qualifying(cz_matches[i])

\* C22: when two qualifying categories have the same priority, the one
\* declared earlier in the configuration wins, whatever kind of match each
\* of them had.
TieGoesToEarlierRule ==
    \A i \in 1..Len(cz_single) :
        \A w, r \in 1..Len(categories) :
            /\ categories[w].name = cz_single[i]
            /\ categories[r].name \in Qualifying(cz_matches[i])
            /\ RulePriority(r) = RulePriority(w)
            => w <= r

\* C23: the confidence of a result is 1.0 when the winning candidate is a
\* sender match, 0.8 when it is a content-pattern match, 0.0 exactly when no
\* rule matched, and nothing else.  A winner that has sender entries only
\* won on a sender match, one that has patterns only on a pattern match.
ConfidenceConvention ==
    \A i \in 1..Len(categorized) :
        /\ categorized[i].confidence \in {0, 8, 10}
        /\ categorized[i].confidence = 0
               <=> QualifyingFor(categorized[i].email) = {}
        /\ \A w \in 1..Len(categories) :
               categories[w].name = categorized[i].category =>
                   /\ categories[w].patterns = <<>>
                          /\ categories[w].senders # <<>>
                      => categorized[i].confidence = 10
                   /\ categories[w].senders = <<>>
                          /\ categories[w].patterns # <<>>
                      => categorized[i].confidence = 8

ValidPatterns(patterns) == SelectSeq(patterns, LAMBDA q : ~InvalidRegex(q))

\* C24: a malformed regex pattern in an otherwise valid rule set fails
\* neither loading nor categorization: the batch has a result for every
\* message, and a rule still qualifies on its remaining patterns.
MalformedPatternIsSkipped ==
    cz_source.kind = "json" /\ cz_pc \notin {"idle", "new"} =>
        /\ cz_pc = "ready"
        /\ (\E c \in 1..Len(calls) : calls[c] = "categorize_batch")
               => Len(categorized) = Len(emails)
        /\ \A i \in 1..Len(cz_single) :
               \A r \in 1..Len(categories) :
                   /\ categories[r].senders = <<>>
                   /\ PatternAxisMatches(emails[i],
                          [categories[r] EXCEPT
                               !.patterns = ValidPatterns(@)])
                   => categories[r].name \in Qualifying(cz_matches[i])

\* C25: content patterns are matched without regard to letter case: a
\* pattern that occurs in subject+snippet up to letter case makes its rule
\* qualify.  No pattern of the configurations carries inline flags.
PatternsIgnoreCase ==
    \A i \in 1..Len(cz_single) :
        \A r \in 1..Len(categories) :
            \A k \in 1..Len(categories[r].patterns) :
                /\ categories[r].senders = <<>>
                /\ ~InvalidRegex(categories[r].patterns[k])
                /\ Contains(LowerStr(Text(emails[i])),
                            <<Lower(categories[r].patterns[k])>>)
                => categories[r].name \in Qualifying(cz_matches[i])

\* C26: a category entry without priority competes as priority 50: it wins
\* against a qualifying category of explicit priority above 50 and loses
\* against one of explicit priority below 50.
OmittedPriorityIsFifty ==
    cz_source.kind = "json" =>
        \A i \in 1..Len(cz_single) :
            \A r, q \in 1..Len(categories) :
                /\ cz_source.raw[r].priority = NoPriority
                /\ cz_source.raw[q].priority # NoPriority
                /\ categories[r].name \in Qualifying(cz_matches[i])
                /\ categories[q].name \in Qualifying(cz_matches[i])
                => /\ cz_source.raw[q].priority > 50
                          => cz_single[i] # categories[q].name
                   /\ cz_source.raw[q].priority < 50
                          => cz_single[i] # categories[r].name

\* C27: a configuration that is valid JSON without the expected structure
\* (top level not a mapping, a category entry not an object) makes loading
\* fail with the config-malformed error, at load time.
BadStructureFailsAtLoad ==
    StructureFails(cz_source) /\ cz_pc \notin {"idle", "new"} =>
        /\ cz_pc = "failed"
        /\ cz_error.class \in {"CategorizerError", "ConfigError"}
        /\ cz_error.msg = "Invalid JSON in"
        /\ calls = <<>>

----------------------------------------------------------------------------
(* Properties of an unauthenticated provider *)

\* C28: on a provider on which authenticate has not succeeded, fetch_unread
\* and each of mark_as_read, add_label, move_to_trash fail with a
\* ProviderError that says authentication is required, and issue no remote
\* API request.
UnauthenticatedOperationRaises ==
    (/\ prov_op # <<>>
     /\ prov_op[1] \in {"fetch_unread", "mark_as_read", "add_label",
                        "move_to_trash"}
     /\ ~prov_service)
        => /\ prov_result = "ProviderError"
           /\ prov_msg = "Not authenticated. Call authenticate() first."
           /\ prov_api = <<>>

\* C29: a domain-suffix sender entry ("@coinbase.com") never matches a
\* message whose sender address does not end in that domain.  Stated on the
\* rules that have domain-suffix sender entries and nothing else, which
\* qualify through such an entry only.
DomainSuffixNeverOvermatches ==
    \A i \in 1..Len(cz_single) :
        \A r \in 1..Len(categories) :
            /\ categories[r].patterns = <<>>
            /\ categories[r].senders # <<>>
            /\ \A e \in 1..Len(categories[r].senders) :
                   Head(categories[r].senders[e]) = "@"
            /\ categories[r].name \in Qualifying(cz_matches[i])
            => \E e \in 1..Len(categories[r].senders) :
                   EndsWith(Address(emails[i].sender),
                            categories[r].senders[e])

----------------------------------------------------------------------------
(* Properties of the organizer's failure handling *)

\* C30: in organize mode a provider failure while applying one email's
\* action is isolated to that email: the step that invokes the provider
\* operation leaves the loop over the emails running, so that the remaining
\* emails are processed and the report is produced.
ProviderFailureIsIsolated ==
    [][(org_pc = "loop" /\ calls' # calls) => org_pc' = "loop"]_vars

====
